---- MODULE Spec2Model ----
(***************************************************************************)
(* Worksphere backend: the chat / presence / notification core.            *)
(*                                                                         *)
(*   socket.js            (src/unnamed/part_017)  connection registry,     *)
(*                        presence broadcast, push helpers                 *)
(*   chatController.js    (src/unnamed/part_002)  startConversation,       *)
(*                        listMessages, sendMessage, markRead              *)
(*   notificationController.js                    createNotification       *)
(*   models/Conversation.js, models/Message.js    (src/models/             *)
(*                        CompanyProfile.js)      schemas, unique index    *)
(*                                                                         *)
(* Node runs every handler to its next await without interruption, so an   *)
(* action is one such run: a socket event handler (no await in register    *)
(* and disconnect), or one database operation of an HTTP handler together  *)
(* with the synchronous code that follows it.                              *)
(***************************************************************************)
EXTENDS Integers, Sequences, FiniteSets, Bags, TLC

VARIABLES
    sockets,          \* socket id -> "fresh" | "open" | "closed"
    connectedUsers,   \* the Map of socket.js: its DOMAIN is the set of keys present
    actor,            \* socket id -> socket.actorKey / actorType / actorId
    rooms,            \* socket id -> the socket.io rooms the socket has joined
    regs,             \* history: live socket id -> the keys its register events resolved to
    joining,          \* socket id -> the conversation of its 'conversation:join' in flight
    emitted,          \* the bag of events the last step handed to socket.io
    convs,            \* the conversations collection: _id -> document
    msgs,             \* the messages collection
    notifs,           \* the notifications collection
    nextId,           \* the next _id of each collection (ObjectIds grow with time)
    req,              \* HTTP request slot -> the handler's position and locals
    clock,            \* the last value new Date() / Date.now() returned
    pager             \* a client walking listMessages page by page

vars == <<sockets, connectedUsers, actor, rooms, regs, joining, emitted,
          convs, msgs, notifs, nextId, req, clock, pager>>

sockVars == <<sockets, connectedUsers, actor, rooms, regs, joining>>
storeVars == <<convs, msgs, notifs, nextId>>

(***************************************************************************)
(* Bounds of the model.                                                    *)
(***************************************************************************)
MaxSockets == 2

\* socket.io gives every connection a new id; they are numbered in the order
\* in which they connect.
Sockets == 1..MaxSockets

\* The _ids of the users and of the companies collection.  The two identity
\* spaces overlap on purpose: user 2 and company 2 share an id.
UserIds == {1, 2}
CompanyIds == {2}

NoActor == [key |-> <<"", 0>>, type |-> "", id |-> 0]

\* No 'conversation:join' in flight; also a join payload without conversationId.
NoJoin == 0

(***************************************************************************)
(* socket.js                                                               *)
(***************************************************************************)

\* keyForActor: "c:<id>" for type company, "u:<id>" for every other type.
keyForActor(type, id) ==
    <<IF type = "company" THEN "c" ELSE "u", id>>

Keys == {keyForActor("user", i) : i \in UserIds}
            \cup {keyForActor("company", i) : i \in CompanyIds}

\* What a client may send with 'register': a plain id string, an object
\* {type, id} (the type is whatever the client wrote), or anything else.
RegisterPayloads ==
    [kind : {"string"}, type : {""}, id : UserIds]
        \cup [kind : {"object"}, type : {"user", "admin"}, id : UserIds]
        \cup [kind : {"object"}, type : {"company"}, id : CompanyIds]
        \cup [kind : {"object"}, type : {"user"}, id : {0}]      \* id missing
        \cup [kind : {"object"}, type : {""}, id : UserIds]      \* type missing
        \cup [kind : {"other"}, type : {""}, id : {0}]           \* null, number, ...

\* Lines 29-43 of the register handler: the key, actorType and actorId the
\* payload resolves to; NoActor when key stays null.
ResolveRegister(p) ==
    IF p.kind = "string"
    THEN [key |-> keyForActor("user", p.id), type |-> "user", id |-> p.id]
    ELSE IF p.kind = "object" /\ p.id # 0 /\ p.type # ""
    THEN [key |-> keyForActor(p.type, p.id), type |-> p.type, id |-> p.id]
    ELSE NoActor

\* One event handed to socket.io: its name, its target, its payload and the
\* sockets that receive it (decided when it is emitted).
Ev(ev, to, rcv, type, id, conv, msg) ==
    [ev |-> ev, to |-> to, rcv |-> rcv, type |-> type, id |-> id,
     conv |-> conv, msg |-> msg]

ToAll == <<"all", "", 0>>
ToSid(s) == <<"sid", "", s>>
ToActorRoom(key) == <<"room", key[1], key[2]>>
ToConvRoom(c) == <<"room", "conversation", c>>

OpenSockets == {s \in Sockets : sockets[s] = "open"}

\* connectedUsers.has(key) / connectedUsers.get(key)
Has(cu, key) == key \in DOMAIN cu
Get(cu, key) == IF Has(cu, key) THEN cu[key] ELSE {}

\* A register that replaces the key's set by the new handle alone.
RegistryAdd_Replace(cu, key, s) ==
    [k \in (DOMAIN cu) \cup {key} |-> IF k = key THEN {s} ELSE cu[k]]

\* Lines 47-48: if (!has(key)) set(key, new Set()); get(key).add(socket.id)
RegistryAdd(cu, key, s) ==
    [k \in (DOMAIN cu) \cup {key} |-> IF k = key THEN Get(cu, key) \cup {s} ELSE cu[k]]

\* A disconnect that deletes the socket from every set and keeps the keys.
RegistryRemove_KeepsEmptied(cu, s) ==
    [k \in DOMAIN cu |-> cu[k] \ {s}]

\* A disconnect that drops emptied keys but leaves the socket in the sets it
\* shares with other sockets.
RegistryRemove_LeavesSharedSets(cu, s) ==
    [k \in {x \in DOMAIN cu : cu[x] \ {s} # {}} |-> cu[k]]

\* Lines 138-141 of the disconnect handler: the socket is deleted from every
\* set, and a key whose set is then empty is deleted from the map.
RegistryRemove(cu, s) ==
    [k \in {x \in DOMAIN cu : cu[x] \ {s} # {}} |-> cu[k] \ {s}]

\* Lines 140-150: the keys for which the disconnect handler broadcasts
\* 'user:offline': those whose set became empty and that equal the key the
\* socket stored last (with actorType and actorId set).
OfflineKeys(cu, s, a) ==
    {k \in DOMAIN cu : /\ cu[k] \ {s} = {}
                       /\ k = a.key /\ a.type # "" /\ a.id # 0}

\* An online check that finds everybody online.
isActorOnline_Always(type, id) == TRUE

\* isActorOnline(type, id), lines 234-237.
isActorOnline(type, id) ==
    LET key == keyForActor(type, id)
    IN  Has(connectedUsers, key) /\ Cardinality(connectedUsers[key]) > 0

\* ioInstance.on("connection"): a new socket with a fresh id.
Connect(s) ==
    /\ sockets[s] = "fresh"
    /\ \A t \in Sockets : t < s => sockets[t] # "fresh"
    /\ sockets' = [sockets EXCEPT ![s] = "open"]
    /\ emitted' = EmptyBag
    /\ UNCHANGED <<connectedUsers, actor, rooms, regs, joining, storeVars, req, clock, pager>>

\* socket.on("register"), lines 28-79.
Register(s, p) ==
    LET a == ResolveRegister(p)
    IN  /\ sockets[s] = "open"
        /\ IF a.key # NoActor.key
           THEN /\ connectedUsers' = RegistryAdd(connectedUsers, a.key, s)
                /\ rooms' = [rooms EXCEPT ![s] = @ \cup {ToActorRoom(a.key)}]
                /\ actor' = [actor EXCEPT ![s] = a]
                /\ regs' = [regs EXCEPT ![s] = @ \cup {a.key}]
                /\ emitted' =
                     SetToBag({Ev("registered", ToSid(s), {s}, a.type, a.id, 0, 0)})
                     (+) SetToBag({Ev("user:online", ToAll, OpenSockets, a.type, a.id, 0, 0)})
           ELSE /\ emitted' = EmptyBag
                /\ UNCHANGED <<connectedUsers, rooms, actor, regs>>
        /\ UNCHANGED <<sockets, joining, storeVars, req, clock, pager>>

\* socket.on("disconnect"), lines 132-153.  socket.io has already taken the
\* socket out of its rooms and of the namespace, so the broadcast does not
\* reach it.
Disconnect(s) ==
    /\ sockets[s] = "open"
    /\ sockets' = [sockets EXCEPT ![s] = "closed"]
    /\ rooms' = [rooms EXCEPT ![s] = {}]
    /\ connectedUsers' = RegistryRemove(connectedUsers, s)
    /\ emitted' = SetToBag({Ev("user:offline", ToAll, OpenSockets \ {s},
                               actor[s].type, actor[s].id, 0, 0)
                            : k \in OfflineKeys(connectedUsers, s, actor[s])})
    /\ actor' = [actor EXCEPT ![s] = NoActor]     \* the socket object is gone
    /\ regs' = [regs EXCEPT ![s] = {}]
    /\ UNCHANGED <<joining, storeVars, req, clock, pager>>

(***************************************************************************)
(* The registry on its own: sockets connect, register and disconnect.      *)
(***************************************************************************)
\* The module state of socket.js when the process has started.
InitSock ==
    /\ sockets = [s \in Sockets |-> "fresh"]
    /\ connectedUsers = << >>
    /\ actor = [s \in Sockets |-> NoActor]
    /\ rooms = [s \in Sockets |-> {}]
    /\ regs = [s \in Sockets |-> {}]
    /\ joining = [s \in Sockets |-> NoJoin]
    /\ emitted = EmptyBag

InitReg ==
    /\ InitSock
    /\ convs = << >>
    /\ msgs = {}
    /\ notifs = {}
    /\ nextId = [conv |-> 1, msg |-> 1, notif |-> 1]
    /\ req = << >>
    /\ clock = 1
    /\ pager = << >>

NextReg ==
    \/ \E s \in Sockets : Connect(s)
    \/ \E s \in Sockets, p \in RegisterPayloads : Register(s, p)
    \/ \E s \in Sockets : Disconnect(s)

SpecReg == InitReg /\ [][NextReg]_vars

(***************************************************************************)
(* Time.  new Date() and Date.now() return the clock; it advances on its   *)
(* own, so two reads may or may not see the same millisecond.              *)
(***************************************************************************)
MaxClock == 2

Tick ==
    /\ clock < MaxClock
    /\ clock' = clock + 1
    /\ emitted' = EmptyBag
    /\ UNCHANGED <<sockVars, storeVars, req, pager>>

(***************************************************************************)
(* Strings.  A text is a run of blanks, a run of non-blank characters and  *)
(* a run of blanks; slice and trim are computed on the three lengths.      *)
(***************************************************************************)
Text(lead, core, trail) == [lead |-> lead, core |-> core, trail |-> trail]

EmptyText == Text(0, 0, 0)

TextLen(t) == t.lead + t.core + t.trail

Min(a, b) == IF a <= b THEN a ELSE b

\* String.prototype.slice(0, n)
Slice(t, n) ==
    LET l == Min(t.lead, n)
        c == Min(t.core, n - l)
    IN  Text(l, c, Min(t.trail, n - l - c))

\* String.prototype.trim(), also the schema's trim: true setter
Trim(t) == IF t.core = 0 THEN EmptyText ELSE Text(0, t.core, 0)

(***************************************************************************)
(* chatController.js                                                       *)
(***************************************************************************)
MaxReq == 2

Reqs == 1..MaxReq

\* A conversation document with the schema's defaults (Conversation.js).
NewConv(user, company, at) ==
    [user |-> user, company |-> company, lastMessageAt |-> at,
     lastMessagePreview |-> EmptyText, userUnreadCount |-> 0, companyUnreadCount |-> 0]

NoDoc == NewConv(0, 0, 0)

NoMsg ==
    [id |-> 0, conversation |-> 0, senderType |-> "", sender |-> 0,
     text |-> EmptyText, att |-> FALSE, createdAt |-> 0, deliveredAt |-> 0, readAt |-> 0]

\* req.body.text (a string or not) and req.file
NoBody == [str |-> FALSE, text |-> EmptyText, file |-> FALSE]

\* A request slot: the handler (op), where it stands (pc), req.actor, the
\* conversationId parameter, the counterparty id of startConversation's body
\* (peer), the notification id parameter (note), the body, the handler's
\* locals (convo, messageDoc, isRecipientOnline / isOnline) and the response
\* (status, out, cur, and seen: the notifications a query of the
\* notification handlers returned or counted).
Idle ==
    [op |-> "", pc |-> "idle", actor |-> [type |-> "", id |-> 0], conv |-> 0,
     peer |-> 0, note |-> 0, body |-> NoBody, doc |-> NoDoc, msg |-> NoMsg,
     online |-> FALSE, status |-> 0, out |-> << >>, cur |-> 0, lim |-> 0, seen |-> {}]

\* The handler returns: the slot keeps the request and its response; the
\* handler's locals are gone.
Answer(q, st, out, cur) ==
    [Idle EXCEPT !.op = q.op, !.pc = "done", !.actor = q.actor, !.conv = q.conv,
                 !.peer = q.peer, !.online = q.online, !.status = st, !.out = out, !.cur = cur]

\* A slot takes a new request when the previous one has been answered.
Free(r) == req[r].pc \in {"idle", "done"}

\* req.actor as resolveActor sets it.
Actors == [type : {"user"}, id : UserIds] \cup [type : {"company"}, id : CompanyIds]

\* A create-instead-of-upsert: the filter never matches.
UpsertMatch_None(cs, user, company) == {}

\* The documents the filter { user, company } of findOneAndUpdate matches.
UpsertMatch(cs, user, company) ==
    {c \in DOMAIN cs : cs[c].user = user /\ cs[c].company = company}

\* startConversation, lines 408-437: the body is validated and one
\* findOneAndUpdate with upsert: true runs; MongoDB applies it to the
\* document of the unique {user, company} index as one operation.  cp is the
\* counterparty id of the body: 0 when missing, -1 when not an ObjectId.
StartUpsert(r, a, cp) ==
    LET user == IF a.type = "user" THEN a.id ELSE cp
        company == IF a.type = "user" THEN cp ELSE a.id
        base == [Idle EXCEPT !.op = "start", !.actor = a, !.peer = cp]
        m == UpsertMatch(convs, user, company)
    IN  /\ Free(r)
        /\ IF cp <= 0
           THEN /\ req' = [req EXCEPT ![r] = Answer(base, 400, << >>, 0)]
                /\ UNCHANGED storeVars
           ELSE IF m # {}
           THEN LET c == CHOOSE x \in m : \A y \in m : x <= y
                    row == [convs[c] EXCEPT !.lastMessageAt = clock]
                IN  /\ convs' = [convs EXCEPT ![c] = row]
                    /\ req' = [req EXCEPT ![r] =
                                 [base EXCEPT !.pc = "respond", !.conv = c, !.doc = row]]
                    /\ UNCHANGED <<msgs, notifs, nextId>>
           ELSE LET c == nextId.conv
                    row == NewConv(user, company, clock)
                IN  /\ convs' = convs @@ (c :> row)
                    /\ nextId' = [nextId EXCEPT !.conv = c + 1]
                    /\ req' = [req EXCEPT ![r] =
                                 [base EXCEPT !.pc = "respond", !.conv = c, !.doc = row]]
                    /\ UNCHANGED <<msgs, notifs>>
        /\ emitted' = EmptyBag
        /\ UNCHANGED <<sockVars, clock, pager>>

\* startConversation, lines 439-456: the profiles are looked up (read only),
\* the counterparty's presence is read and the conversation is returned.
StartRespond(r) ==
    LET q == req[r]
        cpType == IF q.actor.type = "user" THEN "company" ELSE "user"
        cpId == IF q.actor.type = "user" THEN q.doc.company ELSE q.doc.user
    IN  /\ q.op = "start" /\ q.pc = "respond"
        /\ req' = [req EXCEPT ![r] =
                     Answer([q EXCEPT !.online = isActorOnline(cpType, cpId)],
                            201, <<q.conv>>, 0)]
        /\ emitted' = EmptyBag
        /\ UNCHANGED <<sockVars, storeVars, clock, pager>>

(***************************************************************************)
(* startConversation under concurrent callers.                             *)
(***************************************************************************)
InitStart ==
    /\ InitSock
    /\ convs = << >>
    /\ msgs = {}
    /\ notifs = {}
    /\ nextId = [conv |-> 1, msg |-> 1, notif |-> 1]
    /\ req = [r \in Reqs |-> Idle]
    /\ clock = 1
    /\ pager = << >>

\* The counterparty ids a caller may put in the body: the ids of the other
\* collection, none (0), or something that is no ObjectId (-1).
Counterparties(a) ==
    (IF a.type = "user" THEN CompanyIds ELSE UserIds) \cup {0, -1}

NextStart ==
    \/ \E r \in Reqs, a \in Actors : \E cp \in Counterparties(a) :
           StartUpsert(r, a, cp)
    \/ \E r \in Reqs : StartRespond(r)
    \/ Tick

SpecStart == InitStart /\ [][NextStart]_vars

(***************************************************************************)
(* chatController.js: sendMessage, markRead, listMessages                  *)
(***************************************************************************)
MaxMsgs == 2

MaxTextLen == 4000
PreviewLen == 200
NotifPreviewLen == 100
DefaultLimit == 30
LimitCap == 100

\* An authorization that compares the ids and forgets the actor's type.
IsParticipant_IdOnly(doc, a) ==
    doc.user = a.id \/ doc.company = a.id

\* Lines 473-475 and 500-501: isUser || isCompany.
IsParticipant(doc, a) ==
    \/ a.type = "user" /\ doc.user = a.id
    \/ a.type = "company" /\ doc.company = a.id

\* markRead, lines 603-604: isMember.
IsMember(doc, a) ==
    \/ a.type = "user" /\ doc.user = a.id
    \/ a.type # "user" /\ doc.company = a.id

\* Conversation.findById: the document, or NoDoc for null.
FindConv(c) == IF c \in DOMAIN convs THEN convs[c] ELSE NoDoc

\* Lines 514-528: payload.text, or "invalid" for the 400 of line 525.
\* With a file the text is cut to 4000 characters (and is "" when it is no
\* non-empty string); without one it must be a non-empty string of at most
\* 4000 characters and is trimmed.
PayloadText(b) ==
    IF b.file
    THEN [ok |-> TRUE,
          text |-> IF b.str /\ TextLen(b.text) > 0 THEN Slice(b.text, MaxTextLen) ELSE EmptyText]
    ELSE IF ~b.str \/ TextLen(b.text) = 0 \/ TextLen(b.text) > MaxTextLen
    THEN [ok |-> FALSE, text |-> EmptyText]
    ELSE [ok |-> TRUE, text |-> Trim(b.text)]

\* A recipient computed as the sender's own side.
RecipientOf_Sender(doc, senderType) ==
    IF senderType = "user"
    THEN [type |-> "user", id |-> doc.user]
    ELSE [type |-> "company", id |-> doc.company]

\* Lines 561-562: recipientType and recipientId.
RecipientOf(doc, senderType) ==
    IF senderType = "user"
    THEN [type |-> "company", id |-> doc.company]
    ELSE [type |-> "user", id |-> doc.user]

\* The sockets that are in a socket.io room.
InRoom(room) == {s \in OpenSockets : room \in rooms[s]}

\* An emitChatEvent that serves the company's handles only.
emitChatEvent_CompanyOnly(event, userId, companyId, c, m) ==
    LET companyKey == keyForActor("company", companyId)
    IN  SetToBag({Ev(event, ToSid(sid), {sid}, companyKey[1], companyKey[2], c, m.id)
                  : sid \in Get(connectedUsers, companyKey)})
          (+) (IF c # 0
               THEN SetToBag({Ev(event, ToConvRoom(c), InRoom(ToConvRoom(c)), "", 0, c, m.id)})
               ELSE EmptyBag)

\* emitChatEvent(event, userId, companyId, payload), lines 189-232: one copy
\* to every socket id in the user's and in the company's set, one emit to the
\* conversation room, and the fallback loop when nothing was emitted directly
\* and the message's senderType is user.
emitChatEvent(event, userId, companyId, c, m) ==
    LET userKey == keyForActor("user", userId)
        companyKey == keyForActor("company", companyId)
        direct(key) == SetToBag({Ev(event, ToSid(sid), {sid}, key[1], key[2], c, m.id)
                                 : sid \in Get(connectedUsers, key)})
        emittedCount == Cardinality(Get(connectedUsers, userKey))
                          + Cardinality(Get(connectedUsers, companyKey))
        room == IF c # 0
                THEN SetToBag({Ev(event, ToConvRoom(c), InRoom(ToConvRoom(c)), "", 0, c, m.id)})
                ELSE EmptyBag
        fallback == IF m.senderType = "user" /\ emittedCount = 0 /\ userId # 0
                    THEN direct(userKey)
                    ELSE EmptyBag
    IN  direct(userKey) (+) direct(companyKey) (+) room (+) fallback

\* emitToActor(actorType, actorId, event, data), lines 258-281: one emit to
\* the room named by the actor's key.
emitToActor(type, id, event, n) ==
    LET key == keyForActor(type, id)
    IN  SetToBag({Ev(event, ToActorRoom(key), InRoom(ToActorRoom(key)), type, id, 0, n)})

\* A membership test that lets every registered connection in.
IsRoomMember_Registered(key, doc) == key # NoActor.key

\* conversation:join, lines 117-118: isUser || isCompany, computed from the
\* key the socket stored at its last register.
IsRoomMember(key, doc) ==
    \/ key[1] = "u" /\ doc.user = key[2]
    \/ key[1] = "c" /\ doc.company = key[2]

\* socket.on("conversation:join"), lines 107-112: without a conversationId
\* the handler returns; otherwise it starts Conversation.findById.  An id
\* that is no ObjectId (-1) makes findById throw, which the handler catches
\* and logs.
JoinFind(s, c) ==
    /\ sockets[s] = "open"
    /\ joining[s] = NoJoin
    /\ joining' = [joining EXCEPT ![s] = IF c > 0 THEN c ELSE NoJoin]
    /\ emitted' = EmptyBag
    /\ UNCHANGED <<sockets, connectedUsers, actor, rooms, regs, storeVars, req, clock, pager>>

\* socket.on("conversation:join"), lines 113-126: after findById the handler
\* returns for a missing conversation, for a socket without actorKey and for
\* a key that is neither the user's nor the company's; otherwise it joins the
\* room and emits 'conversation:joined' to the socket.  A socket that was
\* disconnected meanwhile is in no socket.io namespace any more: nothing
\* reaches it and no broadcast goes to it.
JoinCheck(s) ==
    LET c == joining[s]
        convo == FindConv(c)
        actorKey == actor[s].key
    IN  /\ c # NoJoin
        /\ joining' = [joining EXCEPT ![s] = NoJoin]
        /\ IF /\ sockets[s] = "open"
              /\ convo # NoDoc
              /\ actorKey # NoActor.key
              /\ IsRoomMember(actorKey, convo)
           THEN /\ rooms' = [rooms EXCEPT ![s] = @ \cup {ToConvRoom(c)}]
                /\ emitted' = SetToBag({Ev("conversation:joined", ToSid(s), {s}, "", 0, c, 0)})
           ELSE /\ emitted' = EmptyBag
                /\ UNCHANGED rooms
        /\ UNCHANGED <<sockets, connectedUsers, actor, regs, storeVars, req, clock, pager>>

\* sendMessage, lines 495-531: findById, the membership check, the payload
\* and new Message(payload), whose _id and timestamps are set here, before
\* the insert is sent.
SendFind(r, a, c, b) ==
    LET doc == FindConv(c)
        base == [Idle EXCEPT !.op = "send", !.actor = a, !.conv = c, !.body = b, !.doc = doc]
        pt == PayloadText(b)
        m == [id |-> nextId.msg, conversation |-> c, senderType |-> a.type, sender |-> a.id,
              text |-> Trim(pt.text), att |-> b.file,
              createdAt |-> clock, deliveredAt |-> clock, readAt |-> 0]
        answer(st) == Answer(base, st, << >>, 0)
    IN  /\ Free(r)
        /\ (doc # NoDoc /\ IsParticipant(doc, a) /\ pt.ok) => nextId.msg <= MaxMsgs
        /\ IF doc = NoDoc THEN req' = [req EXCEPT ![r] = answer(404)] /\ UNCHANGED nextId
           ELSE IF ~IsParticipant(doc, a)
                THEN req' = [req EXCEPT ![r] = answer(403)] /\ UNCHANGED nextId
           ELSE IF ~pt.ok
                THEN req' = [req EXCEPT ![r] = answer(400)] /\ UNCHANGED nextId
           ELSE /\ req' = [req EXCEPT ![r] = [base EXCEPT !.pc = "saveMsg", !.msg = m]]
                /\ nextId' = [nextId EXCEPT !.msg = @ + 1]
        /\ emitted' = EmptyBag
        /\ UNCHANGED <<sockVars, convs, msgs, notifs, clock, pager>>

\* sendMessage, line 531: messageDoc.save() inserts the message.
SendSaveMsg(r) ==
    /\ req[r].op = "send" /\ req[r].pc = "saveMsg"
    /\ msgs' = msgs \cup {req[r].msg}
    /\ req' = [req EXCEPT ![r].pc = "saveConvo"]
    /\ emitted' = EmptyBag
    /\ UNCHANGED <<sockVars, convs, notifs, nextId, clock, pager>>

\* convo.save(): Mongoose sends a $set of the paths whose value differs from
\* the one the document was loaded with; the other paths of the stored
\* document stay as they are.
SaveConv(stored, loaded, local) ==
    [f \in DOMAIN stored |-> IF local[f] # loaded[f] THEN local[f] ELSE stored[f]]

\* convo.save() of a document that has modified paths and is no longer in
\* the collection: the update matches nothing and save() rejects with
\* DocumentNotFoundError, which the handler's catch turns into a 500.  A
\* save without modified paths sends nothing and resolves.
SaveMisses(c, loaded, local) == c \notin DOMAIN convs /\ local # loaded

\* sendMessage, lines 534-541: the changes made to the loaded convo.
TouchOnSend(doc, m) ==
    IF m.senderType = "user"
    THEN [doc EXCEPT !.lastMessageAt = m.createdAt,
                     !.lastMessagePreview = Slice(m.text, PreviewLen),
                     !.companyUnreadCount = @ + 1]
    ELSE [doc EXCEPT !.lastMessageAt = m.createdAt,
                     !.lastMessagePreview = Slice(m.text, PreviewLen),
                     !.userUnreadCount = @ + 1]

\* sendMessage, lines 534-565 and 592: convo.save() with the new preview,
\* time and counter, then, without an await in between, emitChatEvent of
\* 'message:new' and the isActorOnline check of the recipient.  An online
\* recipient ends the request with 201.
SendSaveConvo(r) ==
    LET q == req[r]
        to == RecipientOf(q.doc, q.actor.type)
        online == isActorOnline(to.type, to.id)
    IN  /\ q.op = "send" /\ q.pc = "saveConvo"
        /\ IF SaveMisses(q.conv, q.doc, TouchOnSend(q.doc, q.msg))
           THEN /\ req' = [req EXCEPT ![r] = Answer(q, 500, << >>, 0)]
                /\ emitted' = EmptyBag
                /\ UNCHANGED convs
           ELSE /\ convs' = [convs EXCEPT ![q.conv] =
                                SaveConv(@, q.doc, TouchOnSend(q.doc, q.msg))]
                /\ emitted' = emitChatEvent("message:new", q.doc.user, q.doc.company,
                                            q.conv, q.msg)
                /\ req' = [req EXCEPT ![r] =
                             IF online
                             THEN Answer([q EXCEPT !.online = TRUE], 201, <<q.msg.id>>, 0)
                             ELSE [q EXCEPT !.online = FALSE, !.pc = "notify"]]
        /\ UNCHANGED <<sockVars, msgs, notifs, nextId, clock, pager>>

\* Lines 574-576: the notification's message: the first 100 characters of
\* the text, "..." appended when the text is longer, or "Sent an attachment"
\* for an empty text.
MessagePreview(text) ==
    IF TextLen(text) > 0
    THEN [text |-> Slice(text, NotifPreviewLen), dots |-> TextLen(text) > NotifPreviewLen,
          placeholder |-> FALSE]
    ELSE [text |-> EmptyText, dots |-> FALSE, placeholder |-> TRUE]

\* sendMessage, lines 566-589 with createNotification, lines 185-216: the
\* sender's profile is read for the title, Notification.create inserts the
\* record and it is emitted to the recipient's room.  forMsg is history: the
\* message the record was created for.
SendNotify(r) ==
    LET q == req[r]
        to == RecipientOf(q.doc, q.actor.type)
        n == [id |-> nextId.notif,
              userId |-> IF to.type = "user" THEN to.id ELSE 0,
              companyId |-> IF to.type = "company" THEN to.id ELSE 0,
              type |-> "message_received", message |-> MessagePreview(q.msg.text),
              conv |-> q.conv, priority |-> "medium", isRead |-> FALSE,
              forMsg |-> q.msg.id]
    IN  /\ q.op = "send" /\ q.pc = "notify"
        /\ IF n.userId = 0 /\ n.companyId = 0
           THEN UNCHANGED <<notifs, nextId>> /\ emitted' = EmptyBag
           ELSE /\ notifs' = notifs \cup {n}
                /\ nextId' = [nextId EXCEPT !.notif = @ + 1]
                /\ emitted' = emitToActor(to.type, to.id, "notification", n.id)
        /\ req' = [req EXCEPT ![r].pc = IF n.userId = 0 /\ n.companyId = 0
                                        THEN "answer" ELSE "count"]
        /\ UNCHANGED <<sockVars, convs, msgs, clock, pager>>

\* createNotification, lines 224-231, and sendMessage, line 592: the unread
\* notifications of the recipient are counted, the count is emitted to the
\* recipient's room and the request ends with 201.
SendCount(r) ==
    LET q == req[r]
        to == RecipientOf(q.doc, q.actor.type)
        unread == {n \in notifs : /\ ~n.isRead
                                  /\ IF to.type = "user" THEN n.userId = to.id
                                                         ELSE n.companyId = to.id}
    IN  /\ q.op = "send" /\ q.pc \in {"count", "answer"}
        /\ emitted' = IF q.pc = "count"
                      THEN emitToActor(to.type, to.id, "notificationCountUpdated",
                                       Cardinality(unread))
                      ELSE EmptyBag
        /\ req' = [req EXCEPT ![r] = Answer(q, 201, <<q.msg.id>>, 0)]
        /\ UNCHANGED <<sockVars, storeVars, clock, pager>>

\* markRead, lines 600-605: findById and the membership check.
ReadFind(r, a, c) ==
    LET doc == FindConv(c)
        base == [Idle EXCEPT !.op = "read", !.actor = a, !.conv = c, !.doc = doc]
    IN  /\ Free(r)
        /\ req' = [req EXCEPT ![r] =
                     IF doc = NoDoc THEN Answer(base, 404, << >>, 0)
                     ELSE IF ~IsMember(doc, a) THEN Answer(base, 403, << >>, 0)
                     ELSE [base EXCEPT !.pc = "updateMany"]]
        /\ emitted' = EmptyBag
        /\ UNCHANGED <<sockVars, storeVars, clock, pager>>

\* A filter without readAt: { $exists: false }.
ReadFilter_AnyState(c, a) ==
    {m \in msgs : /\ m.conversation = c
                  /\ m.senderType = (IF a.type = "user" THEN "company" ELSE "user")}

\* Lines 607-611: the messages the updateMany filter matches.
ReadFilter(c, a) ==
    {m \in msgs : /\ m.conversation = c
                  /\ m.readAt = 0
                  /\ m.senderType = (IF a.type = "user" THEN "company" ELSE "user")}

\* markRead, line 612: Message.updateMany stamps readAt on the matches.
ReadUpdateMany(r) ==
    LET q == req[r]
        hit == ReadFilter(q.conv, q.actor)
    IN  /\ q.op = "read" /\ q.pc = "updateMany"
        /\ msgs' = (msgs \ hit) \cup {[m EXCEPT !.readAt = clock] : m \in hit}
        /\ req' = [req EXCEPT ![r].pc = "saveConvo"]
        /\ emitted' = EmptyBag
        /\ UNCHANGED <<sockVars, convs, notifs, nextId, clock, pager>>

\* markRead, lines 614-618: the reader's counter is set to 0 on the loaded convo.
ResetOnRead(doc, a) ==
    IF a.type = "user"
    THEN [doc EXCEPT !.userUnreadCount = 0]
    ELSE [doc EXCEPT !.companyUnreadCount = 0]

\* markRead, lines 614-625: convo.save(), emitChatEvent of 'message:read'
\* and the answer.
ReadSaveConvo(r) ==
    LET q == req[r]
    IN  /\ q.op = "read" /\ q.pc = "saveConvo"
        /\ IF SaveMisses(q.conv, q.doc, ResetOnRead(q.doc, q.actor))
           THEN /\ req' = [req EXCEPT ![r] = Answer(q, 500, << >>, 0)]
                /\ emitted' = EmptyBag
                /\ UNCHANGED convs
           ELSE /\ convs' = [c \in DOMAIN convs |->
                                IF c = q.conv
                                THEN SaveConv(convs[c], q.doc, ResetOnRead(q.doc, q.actor))
                                ELSE convs[c]]
                /\ emitted' = emitChatEvent("message:read", q.doc.user, q.doc.company,
                                            q.conv, NoMsg)
                /\ req' = [req EXCEPT ![r] = Answer(q, 200, << >>, 0)]
        /\ UNCHANGED <<sockVars, msgs, notifs, nextId, clock, pager>>

\* Line 467: Math.min(parseInt(limit, 10) || 30, 100); 0 stands for a limit
\* that is absent or parses to 0 or NaN.
Lim(limit) == Min(IF limit = 0 THEN DefaultLimit ELSE limit, LimitCap)

\* listMessages, lines 465-477: findById and the membership check.
ListFind(r, a, c, cursor, limit) ==
    LET doc == FindConv(c)
        base == [Idle EXCEPT !.op = "list", !.actor = a, !.conv = c, !.doc = doc,
                             !.cur = cursor, !.lim = Lim(limit)]
    IN  /\ Free(r)
        /\ req' = [req EXCEPT ![r] =
                     IF doc = NoDoc THEN Answer(base, 404, << >>, 0)
                     ELSE IF ~IsParticipant(doc, a) THEN Answer(base, 403, << >>, 0)
                     ELSE [base EXCEPT !.pc = "query"]]
        /\ emitted' = EmptyBag
        /\ UNCHANGED <<sockVars, storeVars, clock, pager>>

\* The ids of a set of messages, in descending order: sort({ _id: -1 }).
RECURSIVE Descending(_)
Descending(ids) ==
    IF ids = {} THEN << >>
    ELSE LET top == CHOOSE x \in ids : \A y \in ids : y <= x
         IN  <<top>> \o Descending(ids \ {top})

\* Array.prototype.reverse()
Reverse(q) == [i \in 1..Len(q) |-> q[Len(q) + 1 - i]]

\* Lines 479-486: Message.find(query).sort({ _id: -1 }).limit(lim); the
\* cursor (0 when absent) adds _id < cursor.
FindPage(c, cursor, lim) ==
    LET ids == {m.id : m \in {x \in msgs : /\ x.conversation = c
                                           /\ (cursor # 0 => x.id < cursor)}}
        d == Descending(ids)
    IN  SubSeq(d, 1, Min(lim, Len(d)))

\* A cursor taken from the array before it is reversed: the newest message.
NextCursor_Newest(found) ==
    IF Len(found) > 0 THEN found[1] ELSE 0

\* Line 487: messages.reverse() reverses the array in place before
\* messages[0]._id is read, so nextCursor is the oldest message of the page
\* (0 stands for null).
NextCursor(found) ==
    IF Len(found) > 0 THEN Reverse(found)[1] ELSE 0

\* listMessages, lines 479-487: the query and the answer.
ListQuery(r) ==
    LET q == req[r]
        found == FindPage(q.conv, q.cur, q.lim)
    IN  /\ q.op = "list" /\ q.pc = "query"
        /\ req' = [req EXCEPT ![r] = Answer(q, 200, Reverse(found), NextCursor(found))]
        /\ emitted' = EmptyBag
        /\ UNCHANGED <<sockVars, storeVars, clock, pager>>

(***************************************************************************)
(* notificationController.js and the collaborators that create             *)
(* notifications.                                                          *)
(***************************************************************************)
MaxNotifs == 2

\* The message of a notification that is not about a chat message.
NoticeText == [text |-> Text(0, 1, 0), dots |-> FALSE, placeholder |-> FALSE]

\* A notification document; 0 stands for a recipient reference that is not set.
Notice(id, userId, companyId, type, priority) ==
    [id |-> id, userId |-> userId, companyId |-> companyId, type |-> type,
     message |-> NoticeText, conv |-> 0, priority |-> priority, isRead |-> FALSE,
     forMsg |-> 0]

\* The arguments with which the collaborators call createNotification:
\* the application status change (companyApplicationController.js, lines 262
\* and 279) notifies the applicant with userId and the company with
\* companyId; scheduleInterview (interviewController.js, lines 272 and 290)
\* notifies the applicant with userId and companyId both, then the company
\* with companyId; a call may also come with neither.
CollaboratorCalls ==
    [userId : UserIds, companyId : {0}, type : {"company_response"}, priority : {"medium"}]
        \cup [userId : {0}, companyId : CompanyIds, type : {"company_response"}, priority : {"medium"}]
        \cup [userId : UserIds, companyId : CompanyIds, type : {"interview_scheduled"}, priority : {"urgent"}]
        \cup [userId : {0}, companyId : CompanyIds, type : {"interview_scheduled"}, priority : {"high"}]
        \cup [userId : {0}, companyId : {0}, type : {"system"}, priority : {"medium"}]

\* The query { userId: actorId } or { companyId: actorId } of the handlers.
OwnQuery(a) ==
    {n \in notifs : IF a.type = "company" THEN n.companyId = a.id ELSE n.userId = a.id}

\* emitNotification(userId, notification), lines 157-173 of socket.js: one
\* 'notification' to every socket id of the user's set.
emitNotification(userId, n) ==
    SetToBag({Ev("notification", ToSid(sid), {sid}, "user", userId, 0, n)
              : sid \in Get(connectedUsers, keyForActor("user", userId))})

\* createNotification(args), lines 181-216: nothing without a recipient id;
\* otherwise Notification.create, and the record is emitted to the user when
\* userId is set and to the company otherwise.
NotifyCreate(r, args) ==
    LET n == Notice(nextId.notif, args.userId, args.companyId, args.type, args.priority)
        to == IF args.userId # 0 THEN [type |-> "user", id |-> args.userId]
                                 ELSE [type |-> "company", id |-> args.companyId]
        base == [Idle EXCEPT !.op = "notify", !.actor = to]
    IN  /\ Free(r)
        /\ IF args.userId = 0 /\ args.companyId = 0
           THEN /\ req' = [req EXCEPT ![r] = Answer(base, 0, << >>, 0)]
                /\ emitted' = EmptyBag
                /\ UNCHANGED <<notifs, nextId>>
           ELSE /\ nextId.notif <= MaxNotifs
                /\ notifs' = notifs \cup {n}
                /\ nextId' = [nextId EXCEPT !.notif = @ + 1]
                /\ emitted' = emitToActor(to.type, to.id, "notification", n.id)
                /\ req' = [req EXCEPT ![r] = [base EXCEPT !.pc = "count", !.note = n.id]]
        /\ UNCHANGED <<sockVars, convs, msgs, clock, pager>>

\* createNotification, lines 224-231: the unread notifications are counted
\* with { userId } when userId is set and with { companyId } otherwise, and
\* the count is emitted to the same recipient.
NotifyCount(r) ==
    LET q == req[r]
        unread == {n \in OwnQuery(q.actor) : ~n.isRead}
    IN  /\ q.op = "notify" /\ q.pc = "count"
        /\ emitted' = emitToActor(q.actor.type, q.actor.id, "notificationCountUpdated",
                                  Cardinality(unread))
        /\ req' = [req EXCEPT ![r] = Answer(q, 0, << >>, Cardinality(unread))]
        /\ UNCHANGED <<sockVars, storeVars, clock, pager>>

\* createJob, lines 341-397 of jobController.js (src/unnamed/part_001): one
\* notification per matching user, each with userId and with the posting
\* company's companyId, inserted with insertMany and emitted with
\* emitNotification to the user.
JobMatchInsert(users, company) ==
    LET ids == nextId.notif .. (nextId.notif + Cardinality(users) - 1)
        f == CHOOSE g \in [users -> ids] : \A u, v \in users : u < v => g[u] < g[v]
        made == {Notice(f[u], u, company, "new_job_posted", "high") : u \in users}
    IN  /\ users # {}
        /\ nextId.notif + Cardinality(users) - 1 <= MaxNotifs
        /\ notifs' = notifs \cup made
        /\ nextId' = [nextId EXCEPT !.notif = @ + Cardinality(users)]
        /\ emitted' = BagUnion({emitNotification(n.userId, n.id) : n \in made})
        /\ UNCHANGED <<sockVars, convs, msgs, req, clock, pager>>

\* getUserNotifications, lines 5-42: Notification.find(query).
NoteList(r, a) ==
    /\ Free(r)
    /\ req' = [req EXCEPT ![r] =
                 [Answer([Idle EXCEPT !.op = "nlist", !.actor = a], 200, << >>, 0)
                    EXCEPT !.seen = OwnQuery(a)]]
    /\ emitted' = EmptyBag
    /\ UNCHANGED <<sockVars, storeVars, clock, pager>>

\* getUnreadCount, lines 44-67: Notification.countDocuments(query).
NoteUnreadCount(r, a) ==
    LET unread == {n \in OwnQuery(a) : ~n.isRead}
    IN  /\ Free(r)
        /\ req' = [req EXCEPT ![r] =
                     [Answer([Idle EXCEPT !.op = "ncount", !.actor = a], 200, << >>,
                             Cardinality(unread))
                        EXCEPT !.seen = unread]]
        /\ emitted' = EmptyBag
        /\ UNCHANGED <<sockVars, storeVars, clock, pager>>

\* markAsRead, lines 69-86: findOne({ _id, recipient }) and the 404.
NoteReadFind(r, a, id) ==
    LET base == [Idle EXCEPT !.op = "nread", !.actor = a, !.note = id]
        hit == {n \in OwnQuery(a) : n.id = id}
    IN  /\ Free(r)
        /\ req' = [req EXCEPT ![r] =
                     IF hit = {} THEN Answer(base, 404, << >>, 0)
                     ELSE [base EXCEPT !.pc = "save"]]
        /\ emitted' = EmptyBag
        /\ UNCHANGED <<sockVars, storeVars, clock, pager>>

\* markAsRead, lines 88-89: notification.isRead = true; notification.save().
\* The save updates the document by _id; a document deleted meanwhile is
\* not written again.
NoteReadSave(r) ==
    LET q == req[r]
    IN  /\ q.op = "nread" /\ q.pc = "save"
        /\ notifs' = {IF n.id = q.note THEN [n EXCEPT !.isRead = TRUE] ELSE n : n \in notifs}
        /\ req' = [req EXCEPT ![r].pc = "count"]
        /\ emitted' = EmptyBag
        /\ UNCHANGED <<sockVars, convs, msgs, nextId, clock, pager>>

\* markAsRead, lines 91-100: the caller's unread notifications are counted,
\* the count is emitted and returned.
NoteReadCount(r) ==
    LET q == req[r]
        unread == {n \in OwnQuery(q.actor) : ~n.isRead}
    IN  /\ q.op = "nread" /\ q.pc = "count"
        /\ emitted' = emitToActor(q.actor.type, q.actor.id, "notificationCountUpdated",
                                  Cardinality(unread))
        /\ req' = [req EXCEPT ![r] = Answer(q, 200, << >>, Cardinality(unread))]
        /\ UNCHANGED <<sockVars, storeVars, clock, pager>>

\* markAllAsRead, lines 106-131: updateMany({ recipient, isRead: false },
\* { isRead: true }) and the two events.
NoteReadAll(r, a) ==
    /\ Free(r)
    /\ notifs' = {IF n \in OwnQuery(a) /\ ~n.isRead THEN [n EXCEPT !.isRead = TRUE] ELSE n
                  : n \in notifs}
    /\ emitted' = emitToActor(a.type, a.id, "notificationCountUpdated", 0)
                    (+) emitToActor(a.type, a.id, "notificationsMarkedRead", 0)
    /\ req' = [req EXCEPT ![r] = Answer([Idle EXCEPT !.op = "nreadall", !.actor = a],
                                        200, << >>, 0)]
    /\ UNCHANGED <<sockVars, convs, msgs, nextId, clock, pager>>

\* clearAllNotifications, lines 134-168: with req.body.id, deleteOne({ _id,
\* recipient }); without, deleteMany(recipient) with its two events (id 0
\* stands for a body without id).
NoteClear(r, a, id) ==
    LET base == [Idle EXCEPT !.op = "nclear", !.actor = a, !.note = id]
    IN  /\ Free(r)
        /\ IF id # 0
           THEN /\ notifs' = notifs \ {n \in OwnQuery(a) : n.id = id}
                /\ emitted' = EmptyBag
                /\ req' = [req EXCEPT ![r] = [base EXCEPT !.pc = "count"]]
           ELSE /\ notifs' = notifs \ OwnQuery(a)
                /\ emitted' = emitToActor(a.type, a.id, "notificationCountUpdated", 0)
                                (+) emitToActor(a.type, a.id, "notificationsCleared", 0)
                /\ req' = [req EXCEPT ![r] = Answer(base, 200, << >>, 0)]
        /\ UNCHANGED <<sockVars, convs, msgs, nextId, clock, pager>>

\* clearAllNotifications, lines 148-153: after deleteOne the caller's unread
\* notifications are counted and the two events are emitted.
NoteClearCount(r) ==
    LET q == req[r]
        unread == {n \in OwnQuery(q.actor) : ~n.isRead}
    IN  /\ q.op = "nclear" /\ q.pc = "count"
        /\ emitted' = emitToActor(q.actor.type, q.actor.id, "notificationCountUpdated",
                                  Cardinality(unread))
                        (+) emitToActor(q.actor.type, q.actor.id, "notificationDeleted", q.note)
        /\ req' = [req EXCEPT ![r] = Answer(q, 200, << >>, Cardinality(unread))]
        /\ UNCHANGED <<sockVars, storeVars, clock, pager>>

\* The notification requests of the three principals and the collaborators'
\* notifications, one request after the other.
NextNotice ==
    \/ \E args \in CollaboratorCalls : NotifyCreate(1, args)
    \/ NotifyCount(1)
    \/ \E users \in SUBSET UserIds, c \in CompanyIds : JobMatchInsert(users, c)
    \/ \E a \in Actors : NoteList(1, a)
    \/ \E a \in Actors : NoteUnreadCount(1, a)
    \/ \E a \in Actors, id \in 1..MaxNotifs : NoteReadFind(1, a, id)
    \/ NoteReadSave(1)
    \/ NoteReadCount(1)
    \/ \E a \in Actors : NoteReadAll(1, a)
    \/ \E a \in Actors, id \in 0..MaxNotifs : NoteClear(1, a, id)
    \/ NoteClearCount(1)

SpecNotice == InitStart /\ [][NextNotice]_vars

(***************************************************************************)
(* One conversation between user 1 and company 2, as startConversation     *)
(* creates it, used by concurrent requests of its two participants and of  *)
(* user 2, who is no participant; one connection registers and leaves.     *)
(***************************************************************************)
ChatConv == 1
UnknownConv == 9

ChatBodies ==
    { [str |-> TRUE, text |-> Text(1, 2, 1), file |-> FALSE],
      [str |-> FALSE, text |-> EmptyText, file |-> TRUE],
      [str |-> FALSE, text |-> EmptyText, file |-> FALSE] }

ChatPayloads ==
    { [kind |-> "object", type |-> "user", id |-> 1],
      [kind |-> "object", type |-> "company", id |-> 2] }

InitChat ==
    /\ InitSock
    /\ convs = (ChatConv :> NewConv(1, 2, 1))
    /\ msgs = {}
    /\ notifs = {}
    /\ nextId = [conv |-> ChatConv + 1, msg |-> 1, notif |-> 1]
    /\ req = [r \in Reqs |-> Idle]
    /\ clock = 1
    /\ pager = << >>

\* The two participants of ChatConv.
Participants == {[type |-> "user", id |-> 1], [type |-> "company", id |-> 2]}

\* The steps that continue a sendMessage under way in slot r.
SendSteps(r) ==
    \/ SendSaveMsg(r)
    \/ SendSaveConvo(r)
    \/ SendNotify(r)
    \/ SendCount(r)

\* The steps that continue a markRead under way in slot r.
ReadSteps(r) ==
    \/ ReadUpdateMany(r)
    \/ ReadSaveConvo(r)

\* The one connection of these scenarios.
ChatSocket ==
    \/ Connect(1)
    \/ \E p \in ChatPayloads : Register(1, p)
    \/ Disconnect(1)

\* Concurrent sendMessage and markRead requests of the two participants.
NextChat ==
    \/ \E r \in Reqs, a \in Participants, b \in ChatBodies : SendFind(r, a, ChatConv, b)
    \/ \E r \in Reqs, a \in Participants : ReadFind(r, a, ChatConv)
    \/ \E r \in Reqs : SendSteps(r)
    \/ \E r \in Reqs : ReadSteps(r)

SpecChat == InitChat /\ [][NextChat]_vars

\* One request after the other, by a participant or by user 2 (who is none),
\* on ChatConv or on a conversation that does not exist.
NextAuth ==
    \/ \E a \in Actors, c \in {ChatConv, UnknownConv}, b \in ChatBodies : SendFind(1, a, c, b)
    \/ \E a \in Actors, c \in {ChatConv, UnknownConv} : ReadFind(1, a, c)
    \/ \E a \in Actors, c \in {ChatConv, UnknownConv} : ListFind(1, a, c, 0, 0)
    \/ SendSteps(1)
    \/ ReadSteps(1)
    \/ ListQuery(1)

SpecAuth == InitChat /\ [][NextAuth]_vars

\* Messages sent by the two participants while the connection of one of
\* them, or of both, registers and leaves.
NextNotify ==
    \/ ChatSocket
    \/ \E a \in Participants, b \in ChatBodies : SendFind(1, a, ChatConv, b)
    \/ SendSteps(1)

SpecNotify == InitChat /\ [][NextNotify]_vars

(***************************************************************************)
(* listMessages on a store that holds still: a client asks for the newest  *)
(* page of ChatConv and then passes each nextCursor back, with one limit,  *)
(* until a page comes back empty.                                          *)
(***************************************************************************)
MaxStored == 4
MaxLimit == 3

OtherConv == 2

\* A stored message with _id i in conversation c.  ObjectIds grow with the
\* time of creation, and two messages may be created in the same millisecond.
StoredMsg(i, c) ==
    [NoMsg EXCEPT !.id = i, !.conversation = c,
                  !.senderType = IF i % 2 = 1 THEN "user" ELSE "company",
                  !.sender = IF i % 2 = 1 THEN convs[c].user ELSE convs[c].company,
                  !.text = Text(0, 1, 0),
                  !.createdAt = (i + 1) \div 2, !.deliveredAt = (i + 1) \div 2]

\* The stores of the walk: every _id up to MaxStored is a message of
\* ChatConv, a message of OtherConv, or not there.
Stores ==
    {{StoredMsg(i, f[i]) : i \in {j \in 1..MaxStored : f[j] # 0}}
        : f \in [1..MaxStored -> {0, ChatConv, OtherConv}]}

InitPage ==
    /\ InitSock
    /\ convs = (ChatConv :> NewConv(1, 2, 1)) @@ (OtherConv :> NewConv(2, 2, 1))
    /\ msgs \in Stores
    /\ notifs = {}
    /\ nextId = [conv |-> OtherConv + 1, msg |-> MaxStored + 1, notif |-> 1]
    /\ req = [r \in Reqs |-> Idle]
    /\ clock = MaxStored
    /\ pager \in [limit : 0..MaxLimit, cursor : {0}, pages : {<< >>}, done : {FALSE}]

\* The client asks for the next page: ?limit=<limit>&cursor=<cursor>, the
\* cursor being absent in the first request.
PageRequest ==
    /\ ~pager.done
    /\ req[1].pc = "idle"
    /\ ListFind(1, [type |-> "user", id |-> 1], ChatConv, pager.cursor, pager.limit)

\* The client takes { messages, nextCursor } of line 487 from the answer and
\* stops at an empty page.
PageReceive ==
    /\ req[1].op = "list" /\ req[1].pc = "done"
    /\ pager' = [pager EXCEPT !.pages = Append(@, req[1].out),
                              !.cursor = req[1].cur,
                              !.done = (req[1].out = << >>)]
    /\ req' = [req EXCEPT ![1] = Idle]
    /\ emitted' = EmptyBag
    /\ UNCHANGED <<sockVars, storeVars, clock>>

NextPage ==
    \/ PageRequest
    \/ ListQuery(1)
    \/ PageReceive

SpecPage == InitPage /\ [][NextPage]_vars

(***************************************************************************)
(* sendMessage with every shape of body, one request after the other.      *)
(***************************************************************************)
\* req.body.text missing or no string, the empty string, blanks only, a text
\* with blanks around it, a text of 4001 characters; each without and with a
\* file (upload.single("file") admits one file at most).
ValidationBodies ==
    [str : {FALSE}, text : {EmptyText}, file : BOOLEAN]
        \cup [str : {TRUE},
              text : {EmptyText, Text(2, 0, 0), Text(1, 2, 1), Text(0, MaxTextLen + 1, 0)},
              file : BOOLEAN]

NextValidate ==
    \/ \E a \in Participants, b \in ValidationBodies : SendFind(1, a, ChatConv, b)
    \/ SendSteps(1)

SpecValidate == InitChat /\ [][NextValidate]_vars

(***************************************************************************)
(* Connections that register, ask to join conversation rooms and leave.    *)
(***************************************************************************)
\* Registrations as user 1 (plain id), as user 2, as company 2, and one that
\* resolves to no key.
JoinPayloads ==
    { [kind |-> "string", type |-> "", id |-> 1],
      [kind |-> "object", type |-> "user", id |-> 2],
      [kind |-> "object", type |-> "company", id |-> 2],
      [kind |-> "other", type |-> "", id |-> 0] }

\* The two connections of this scenario.
JoinSockets == {1, 2}

NextJoin ==
    \/ \E s \in JoinSockets : Connect(s)
    \/ \E s \in JoinSockets, p \in JoinPayloads : Register(s, p)
    \/ \E s \in JoinSockets : Disconnect(s)
    \/ \E s \in JoinSockets, c \in {NoJoin, -1, ChatConv, UnknownConv} : JoinFind(s, c)
    \/ \E s \in JoinSockets : JoinCheck(s)

SpecJoin == InitChat /\ [][NextJoin]_vars

(***************************************************************************)
(* Account deletion: the cascade of userSchema.pre('findOneAndDelete')     *)
(* (models/User.js) and companySchema.pre('findOneAndDelete')              *)
(* (models/Company.js), run by the admin's deleteUser / deleteCompany.     *)
(***************************************************************************)
\* The conversations a principal takes part in: the filter { user: id } or
\* { company: id }.
ConvsOf(a) ==
    {c \in DOMAIN convs : IF a.type = "user" THEN convs[c].user = a.id
                                             ELSE convs[c].company = a.id}

\* Conversation.find({ user: userId }) with conversationIds (kept in seen).
CascadeFind(r, a) ==
    /\ Free(r)
    /\ req' = [req EXCEPT ![r] =
                 [Idle EXCEPT !.op = "delete", !.pc = "messages", !.actor = a,
                              !.seen = ConvsOf(a)]]
    /\ emitted' = EmptyBag
    /\ UNCHANGED <<sockVars, storeVars, clock, pager>>

\* Message.deleteMany({ conversation: { $in: conversationIds } })
CascadeMessages(r) ==
    /\ req[r].op = "delete" /\ req[r].pc = "messages"
    /\ msgs' = {m \in msgs : m.conversation \notin req[r].seen}
    /\ req' = [req EXCEPT ![r].pc = "convs"]
    /\ emitted' = EmptyBag
    /\ UNCHANGED <<sockVars, convs, notifs, nextId, clock, pager>>

\* Conversation.deleteMany({ user: userId })
CascadeConvs(r) ==
    /\ req[r].op = "delete" /\ req[r].pc = "convs"
    /\ convs' = [c \in (DOMAIN convs) \ ConvsOf(req[r].actor) |-> convs[c]]
    /\ req' = [req EXCEPT ![r].pc = "notifs"]
    /\ emitted' = EmptyBag
    /\ UNCHANGED <<sockVars, msgs, notifs, nextId, clock, pager>>

\* Notification.deleteMany({ userId: userId })
CascadeNotifs(r) ==
    /\ req[r].op = "delete" /\ req[r].pc = "notifs"
    /\ notifs' = notifs \ OwnQuery(req[r].actor)
    /\ req' = [req EXCEPT ![r].pc = "account"]
    /\ emitted' = EmptyBag
    /\ UNCHANGED <<sockVars, convs, msgs, nextId, clock, pager>>

\* The hook calls next(), findOneAndDelete removes the account document and
\* the admin's request is answered.
CascadeAccount(r) ==
    /\ req[r].op = "delete" /\ req[r].pc = "account"
    /\ req' = [req EXCEPT ![r] = Answer(req[r], 200, << >>, 0)]
    /\ emitted' = EmptyBag
    /\ UNCHANGED <<sockVars, storeVars, clock, pager>>

CascadeSteps(r) ==
    \/ CascadeMessages(r)
    \/ CascadeConvs(r)
    \/ CascadeNotifs(r)
    \/ CascadeAccount(r)

\* A text message and an attachment.
CascadeBodies ==
    { [str |-> TRUE, text |-> Text(0, 1, 0), file |-> FALSE],
      [str |-> FALSE, text |-> EmptyText, file |-> TRUE] }

\* The participants of ChatConv send and read in slot 1 while an admin
\* deletes one of the two accounts in slot 2.
NextCascade ==
    \/ \E a \in Participants, b \in CascadeBodies : SendFind(1, a, ChatConv, b)
    \/ \E a \in Participants : ReadFind(1, a, ChatConv)
    \/ SendSteps(1)
    \/ ReadSteps(1)
    \/ \E a \in Participants : CascadeFind(2, a)
    \/ CascadeSteps(2)

SpecCascade == InitChat /\ [][NextCascade]_vars

(***************************************************************************)
(* sendMessage when a database operation rejects.                          *)
(***************************************************************************)
\* The operation the handler in slot r awaits (messageDoc.save(),
\* convo.save(), the sender's profile lookup or Notification.create, the
\* notification's findById or countDocuments, which createNotification
\* rethrows) rejects, and the catch of line 593 answers 500.
SendFails(r) ==
    /\ req[r].op = "send"
    /\ req[r].pc \in {"saveMsg", "saveConvo", "notify", "count"}
    /\ req' = [req EXCEPT ![r] = Answer(req[r], 500, << >>, 0)]
    /\ emitted' = EmptyBag
    /\ UNCHANGED <<sockVars, storeVars, clock, pager>>

NextFault ==
    \/ \E a \in Participants, b \in CascadeBodies : SendFind(1, a, ChatConv, b)
    \/ SendSteps(1)
    \/ SendFails(1)

SpecFault == InitChat /\ [][NextFault]_vars

(***************************************************************************)
(* Reading over time: the company sends in one request slot while both     *)
(* participants mark the conversation read and the user starts it again in *)
(* the other slot, so a send is in flight while the conversation is read   *)
(* and the clock advances between the calls.                               *)
(***************************************************************************)
ReadSlots == {1, 2}

\* A text message.
ReadBodies == { [str |-> TRUE, text |-> Text(0, 1, 0), file |-> FALSE] }

NextRead ==
    \/ \E b \in ReadBodies : SendFind(1, [type |-> "company", id |-> 2], ChatConv, b)
    \/ \E a \in Participants : ReadFind(2, a, ChatConv)
    \/ StartUpsert(2, [type |-> "user", id |-> 1], 2)
    \/ \E r \in ReadSlots : SendSteps(r)
    \/ \E r \in ReadSlots : ReadSteps(r)
    \/ \E r \in ReadSlots : StartRespond(r)
    \/ Tick

SpecRead == InitChat /\ [][NextRead]_vars

(***************************************************************************)
(* Pushes that fail.  emitChatEvent calls ioInstance.to(sid).emit for one  *)
(* handle after the other with no try/catch of its own, inside the try      *)
(* block of sendMessage and markRead.  An emit that throws at the handle    *)
(* bad, after the handles in done of the same set were served, ends the     *)
(* loop: the conversation is saved, the handles reached before bad have the *)
(* event, and the request is answered by the catch block.                   *)
(***************************************************************************)
PushSockets == {1, 2}

\* emitChatEvent, lines 202-212, cut short by an exception at handle bad:
\* the user's set is walked before the company's.
PushedBefore(event, userId, companyId, c, m, bad, done) ==
    LET userKey == keyForActor("user", userId)
        companyKey == keyForActor("company", companyId)
        direct(key, sids) == SetToBag({Ev(event, ToSid(sid), {sid}, key[1], key[2], c, m.id)
                                       : sid \in sids})
    IN  IF bad \in Get(connectedUsers, userKey)
        THEN direct(userKey, done)
        ELSE direct(userKey, Get(connectedUsers, userKey)) (+) direct(companyKey, done)

\* The handles left to serve in the set where the emit at bad throws.
SameSet(userId, companyId, bad) ==
    LET userSet == Get(connectedUsers, keyForActor("user", userId))
        companySet == Get(connectedUsers, keyForActor("company", companyId))
    IN  IF bad \in userSet THEN userSet \ {bad} ELSE companySet \ {bad}

\* sendMessage, lines 553-565 and 593-595: convo.save() succeeds, the emit
\* at bad throws inside emitChatEvent and the catch block answers 500.
SendEmitThrows(r, bad, done) ==
    LET q == req[r]
    IN  /\ q.op = "send" /\ q.pc = "saveConvo"
        /\ ~SaveMisses(q.conv, q.doc, TouchOnSend(q.doc, q.msg))
        /\ bad \in Get(connectedUsers, keyForActor("user", q.doc.user))
                     \cup Get(connectedUsers, keyForActor("company", q.doc.company))
        /\ done \subseteq SameSet(q.doc.user, q.doc.company, bad)
        /\ convs' = [convs EXCEPT ![q.conv] = SaveConv(@, q.doc, TouchOnSend(q.doc, q.msg))]
        /\ emitted' = PushedBefore("message:new", q.doc.user, q.doc.company, q.conv, q.msg,
                                   bad, done)
        /\ req' = [req EXCEPT ![r] = Answer(q, 500, << >>, 0)]
        /\ UNCHANGED <<sockVars, msgs, notifs, nextId, clock, pager>>

\* markRead, lines 619-628: convo.save() succeeds, the emit at bad throws
\* inside emitChatEvent and the catch block answers 500.
ReadEmitThrows(r, bad, done) ==
    LET q == req[r]
    IN  /\ q.op = "read" /\ q.pc = "saveConvo"
        /\ ~SaveMisses(q.conv, q.doc, ResetOnRead(q.doc, q.actor))
        /\ bad \in Get(connectedUsers, keyForActor("user", q.doc.user))
                     \cup Get(connectedUsers, keyForActor("company", q.doc.company))
        /\ done \subseteq SameSet(q.doc.user, q.doc.company, bad)
        /\ convs' = [c \in DOMAIN convs |->
                        IF c = q.conv
                        THEN SaveConv(convs[c], q.doc, ResetOnRead(q.doc, q.actor))
                        ELSE convs[c]]
        /\ emitted' = PushedBefore("message:read", q.doc.user, q.doc.company, q.conv, NoMsg,
                                   bad, done)
        /\ req' = [req EXCEPT ![r] = Answer(q, 500, << >>, 0)]
        /\ UNCHANGED <<sockVars, msgs, notifs, nextId, clock, pager>>

\* Two connections that register as the participants and leave.
PushSocket ==
    \/ \E s \in PushSockets : Connect(s)
    \/ \E s \in PushSockets, p \in ChatPayloads : Register(s, p)
    \/ \E s \in PushSockets : Disconnect(s)

\* sendMessage and markRead by the participants, every push delivered.
NextEmit ==
    \/ PushSocket
    \/ \E a \in Participants, b \in ReadBodies : SendFind(1, a, ChatConv, b)
    \/ \E a \in Participants : ReadFind(1, a, ChatConv)
    \/ SendSteps(1)
    \/ ReadSteps(1)

SpecEmit == InitChat /\ [][NextEmit]_vars

\* The same, with emits that may throw.
NextPush ==
    \/ NextEmit
    \/ \E bad \in PushSockets, done \in SUBSET PushSockets : SendEmitThrows(1, bad, done)
    \/ \E bad \in PushSockets, done \in SUBSET PushSockets : ReadEmitThrows(1, bad, done)

SpecPush == InitChat /\ [][NextPush]_vars

(***************************************************************************)
(* Probing: the same request is made on ChatConv in one slot and on an id  *)
(* that names no conversation in the other, by a participant or by user 2. *)
(***************************************************************************)
NextProbe ==
    \/ \E a \in Actors, b \in ChatBodies : SendFind(1, a, ChatConv, b)
    \/ \E a \in Actors, b \in ChatBodies : SendFind(2, a, UnknownConv, b)
    \/ \E a \in Actors : ReadFind(1, a, ChatConv)
    \/ \E a \in Actors : ReadFind(2, a, UnknownConv)
    \/ \E a \in Actors : ListFind(1, a, ChatConv, 0, 0)
    \/ \E a \in Actors : ListFind(2, a, UnknownConv, 0, 0)
    \/ SendSteps(1)
    \/ ReadSteps(1)
    \/ ListQuery(1)

SpecProbe == InitChat /\ [][NextProbe]_vars

(***************************************************************************)
(* Typing indicators: connections register, join the room of ChatConv and  *)
(* send 'typing' events.                                                   *)
(***************************************************************************)
\* The `to` of a typing payload: absent, or a principal reference.
NoTo == [type |-> "", id |-> 0]

TypingTargets == {NoTo, [type |-> "user", id |-> 1], [type |-> "company", id |-> 2]}

\* socket.on("typing"), lines 81-104: with a conversationId the event goes to
\* the conversation room except the sender (socket.to), and with to.type and
\* to.id it goes to every handle in the recipient's set.
Typing(s, c, to) ==
    LET recipientKey == keyForActor(to.type, to.id)
        room == IF c # NoJoin
                THEN SetToBag({Ev("typing", ToConvRoom(c), InRoom(ToConvRoom(c)) \ {s},
                                  "", 0, c, 0)})
                ELSE EmptyBag
        direct == IF to.type # "" /\ to.id # 0
                  THEN SetToBag({Ev("typing", ToSid(sid), {sid}, "", 0, c, 0)
                                 : sid \in Get(connectedUsers, recipientKey)})
                  ELSE EmptyBag
    IN  /\ sockets[s] = "open"
        /\ emitted' = room (+) direct
        /\ UNCHANGED <<sockVars, storeVars, req, clock, pager>>

NextTyping ==
    \/ \E s \in JoinSockets : Connect(s)
    \/ \E s \in JoinSockets, p \in JoinPayloads : Register(s, p)
    \/ \E s \in JoinSockets : Disconnect(s)
    \/ \E s \in JoinSockets : JoinFind(s, ChatConv)
    \/ \E s \in JoinSockets : JoinCheck(s)
    \/ \E s \in JoinSockets, c \in {NoJoin, ChatConv, UnknownConv}, to \in TypingTargets :
           Typing(s, c, to)

SpecTyping == InitChat /\ [][NextTyping]_vars

(***************************************************************************)
(* Notification previews: the participants send texts around the preview    *)
(* length, and attachments, while nobody is connected.                      *)
(***************************************************************************)
PreviewBodies ==
    { [str |-> TRUE, text |-> Text(0, 1, 0), file |-> FALSE],
      [str |-> TRUE, text |-> Text(0, NotifPreviewLen, 0), file |-> FALSE],
      [str |-> TRUE, text |-> Text(0, NotifPreviewLen + 1, 0), file |-> FALSE],
      [str |-> TRUE, text |-> Text(0, NotifPreviewLen + 1, 0), file |-> TRUE],
      [str |-> FALSE, text |-> EmptyText, file |-> TRUE] }

NextPreview ==
    \/ \E a \in Participants, b \in PreviewBodies : SendFind(1, a, ChatConv, b)
    \/ SendSteps(1)

SpecPreview == InitChat /\ [][NextPreview]_vars

(***************************************************************************)
(* Properties                                                              *)
(***************************************************************************)

\* The principals other components ask about.
Principals ==
    [type : {"user"}, id : UserIds] \cup [type : {"company"}, id : UserIds \cup CompanyIds]

\* The number of 'user:offline' events in bag b that name the principal of key k.
OfflineCount(b, k) ==
    LET S == {e \in BagToSet(b) : e.ev = "user:offline" /\ keyForActor(e.type, e.id) = k}
    IN  BagCardinality([e \in S |-> b[e]])

\* C1: after any sequence and interleaving of register and disconnect
\* events, isActorOnline(type, id) is true exactly when at least one socket
\* that is still connected has registered as that principal.
C1_OnlineIffLiveHandle ==
    \A p \in Principals :
        isActorOnline(p.type, p.id)
            <=> \E s \in OpenSockets : keyForActor(p.type, p.id) \in regs[s]

\* C1 witness: one socket has disconnected, another is still connected and
\* registered as two principals, and some principal is online while another
\* is offline.
C1_Witness ==
    /\ \E s \in Sockets : sockets[s] = "closed"
    /\ \E s \in OpenSockets : Cardinality(regs[s]) = 2
    /\ \E p, q \in Principals : isActorOnline(p.type, p.id) /\ ~isActorOnline(q.type, q.id)

\* C2: a 'user:online' broadcast for a principal is emitted only by a
\* registration that takes the principal from zero handles to one; a
\* registration for a principal that already has a handle emits none.
C2_OnlineOnlyOnFirstHandle ==
    [][\A e \in BagToSet(emitted') :
          e.ev = "user:online" => ~Has(connectedUsers, keyForActor(e.type, e.id))]_vars

\* C3: a 'user:offline' broadcast for a principal is emitted exactly when a
\* step takes the principal's handle set from non-empty to empty: every such
\* step removes the key and emits exactly one offline event for it, and a
\* principal that keeps a handle gets none.
C3_OfflineExactlyOnLastHandle ==
    [][\A k \in Keys :
          /\ (Has(connectedUsers, k) /\ Get(connectedUsers', k) = {})
                => (~Has(connectedUsers', k) /\ OfflineCount(emitted', k) = 1)
          /\ OfflineCount(emitted', k) > 0
                => (Has(connectedUsers, k) /\ ~Has(connectedUsers', k))]_vars

\* The (user, company) pair a startConversation request asks for.
StartPair(q) ==
    [user |-> IF q.actor.type = "user" THEN q.actor.id ELSE q.peer,
     company |-> IF q.actor.type = "user" THEN q.peer ELSE q.actor.id]

\* The startConversation requests whose upsert has run.
Started == {r \in Reqs : /\ req[r].op = "start"
                         /\ req[r].pc = "respond" \/ req[r].status = 201}

Outsider(q) ==
    /\ q.op \in {"list", "send", "read"}
    /\ q.conv \in DOMAIN convs
    /\ ~(\/ q.actor.type = "user" /\ q.actor.id = convs[q.conv].user
         \/ q.actor.type = "company" /\ q.actor.id = convs[q.conv].company)

\* C5: listMessages, sendMessage and markRead by a caller whose (type, id) is
\* neither the conversation's user nor its company end at once with 403 and
\* return no message, and the step that handles such a request changes no
\* conversation, message or notification and emits no event.
C5_OutsiderRefused ==
    /\ [](\A r \in Reqs : Outsider(req[r]) =>
              /\ req[r].pc = "done" /\ req[r].status = 403
              /\ req[r].out = << >> /\ req[r].cur = 0)
    /\ [][\A r \in Reqs : (req'[r] # req[r] /\ Outsider(req'[r])) =>
              /\ convs' = convs /\ msgs' = msgs /\ notifs' = notifs
              /\ emitted' = EmptyBag]_vars

\* C5 witness: user 2, who shares its id with the conversation's company, has
\* asked for the messages of ChatConv and got 403, while the conversation
\* holds a message with an unread counter above 0.
C5_Witness ==
    /\ Outsider(req[1])
    /\ req[1].op = "list" /\ req[1].actor = [type |-> "user", id |-> 2]
    /\ req[1].status = 403
    /\ msgs # {}
    /\ convs[ChatConv].companyUnreadCount > 0

\* The messages of conversation c written by side `from` that have no readAt.
Unread(ms, c, from) ==
    {m \in ms : m.conversation = c /\ m.senderType = from /\ m.readAt = 0}

\* C6: once every sendMessage and markRead call on a conversation has
\* completed, the user's unread counter is the number of the company's
\* messages without readAt, and the company's counter the number of the
\* user's messages without readAt.
C6_CountersMatchUnread ==
    (\A r \in Reqs : Free(r)) =>
        \A c \in DOMAIN convs :
            /\ convs[c].userUnreadCount = Cardinality(Unread(msgs, c, "company"))
            /\ convs[c].companyUnreadCount = Cardinality(Unread(msgs, c, "user"))

\* The step in which the sendMessage of slot r saves the conversation.
SendSaves(r) ==
    /\ req[r].op = "send" /\ req[r].pc = "saveConvo"
    /\ req'[r].pc # "saveConvo"

\* C7: the conversation save of an accepted sendMessage raises the stored
\* counter of the side that did not send by exactly 1, leaves the sender's
\* counter as it was, and sets lastMessagePreview to the first 200 characters
\* of the message's text and lastMessageAt to the message's createdAt.
C7_SendTouchesConversation ==
    [][\A r \in Reqs : SendSaves(r) =>
          LET c == req[r].conv
              m == req[r].msg
          IN  /\ IF m.senderType = "user"
                 THEN /\ convs'[c].companyUnreadCount = convs[c].companyUnreadCount + 1
                      /\ convs'[c].userUnreadCount = convs[c].userUnreadCount
                 ELSE /\ convs'[c].userUnreadCount = convs[c].userUnreadCount + 1
                      /\ convs'[c].companyUnreadCount = convs[c].companyUnreadCount
              /\ convs'[c].lastMessagePreview = Slice(m.text, PreviewLen)
              /\ convs'[c].lastMessageAt = m.createdAt]_vars

\* The side a reader reads from.
OtherSide(a) == IF a.type = "user" THEN "company" ELSE "user"

\* C8: the updateMany of a markRead leaves no message of the other side
\* without readAt and touches no message of the reader, and the conversation
\* save that ends the markRead leaves the reader's stored counter at 0 and
\* the other side's counter as it was; a markRead that finds nothing unread
\* and a counter of 0 changes no message and no counter.
C8_MarkReadResets ==
    [][\A r \in Reqs : req[r].op = "read" =>
          LET q == req[r]
              c == q.conv
          IN  /\ (q.pc = "updateMany" /\ req'[r].pc = "saveConvo") =>
                    /\ Unread(msgs', c, OtherSide(q.actor)) = {}
                    /\ \A m \in msgs : m.senderType # OtherSide(q.actor) => m \in msgs'
                    /\ Unread(msgs, c, OtherSide(q.actor)) = {} => msgs' = msgs
              /\ (q.pc = "saveConvo" /\ req'[r].pc = "done") =>
                    IF q.actor.type = "user"
                    THEN /\ convs'[c].userUnreadCount = 0
                         /\ convs'[c].companyUnreadCount = convs[c].companyUnreadCount
                    ELSE /\ convs'[c].companyUnreadCount = 0
                         /\ convs'[c].userUnreadCount = convs[c].userUnreadCount]_vars

\* The notifications created for message id.
NotifsFor(id) == {n \in notifs : n.forMsg = id}

\* The sendMessage requests that were accepted and answered.
Accepted == {r \in Reqs : req[r].op = "send" /\ req[r].pc = "done" /\ req[r].status = 201}

\* C9: every notification of a message is of type message_received with
\* priority medium and is addressed to the side of the conversation that did
\* not send the message, and to nobody else; a message has at most one; an
\* accepted message has exactly one when its recipient was found offline at
\* send time and none when the recipient was found online; and the recipient
\* is found online exactly when a socket that is still connected has
\* registered as the recipient.
C9_NotifiedIffOffline ==
    /\ [](/\ \A n \in notifs :
                /\ n.type = "message_received" /\ n.priority = "medium"
                /\ \E m \in msgs :
                      /\ m.id = n.forMsg /\ m.conversation = n.conv
                      /\ IF m.senderType = "user"
                         THEN n.companyId = convs[n.conv].company /\ n.userId = 0
                         ELSE n.userId = convs[n.conv].user /\ n.companyId = 0
          /\ \A m \in msgs : Cardinality(NotifsFor(m.id)) <= 1
          /\ \A r \in Accepted :
                Cardinality(NotifsFor(req[r].out[1])) = IF req[r].online THEN 0 ELSE 1)
    /\ [][\A r \in Reqs : SendSaves(r) =>
             LET to == [type |-> OtherSide(req[r].actor),
                        id |-> IF req[r].actor.type = "user"
                               THEN convs[req[r].conv].company
                               ELSE convs[req[r].conv].user]
             IN  req'[r].online
                    <=> \E s \in OpenSockets : keyForActor(to.type, to.id) \in regs[s]]_vars

\* C9 witness: the last accepted message found its recipient offline and has
\* its notification, an earlier message found its recipient online and has
\* none, and the recipient of the last message is online by now.
C9_Witness ==
    /\ 1 \in Accepted
    /\ ~req[1].online
    /\ Cardinality(NotifsFor(req[1].out[1])) = 1
    /\ \E m \in msgs : m.id # req[1].out[1] /\ NotifsFor(m.id) = {}
    /\ \E s \in OpenSockets : Cardinality(regs[s]) = 2

\* The _ids of page k of the walk; the messages of the walked conversation;
\* the createdAt of a stored message.
PageSet(k) == {pager.pages[k][i] : i \in 1..Len(pager.pages[k])}
History == {m.id : m \in {x \in msgs : x.conversation = ChatConv}}
CreatedAt(id) == (CHOOSE m \in msgs : m.id = id).createdAt

\* C10: in a walk of listMessages with one limit that passes each nextCursor
\* back, every page holds messages of the conversation in ascending order of
\* _id and of createdAt, every later page holds only messages older than all
\* messages of the pages before it (so no message comes twice), and when the
\* empty page arrives the pages together hold every message of the
\* conversation.
C10_PagesRebuildHistory ==
    LET pages == pager.pages
    IN  /\ \A k \in 1..Len(pages) :
               /\ PageSet(k) \subseteq History
               /\ \A i, j \in 1..Len(pages[k]) :
                     i < j => /\ pages[k][i] < pages[k][j]
                              /\ CreatedAt(pages[k][i]) <= CreatedAt(pages[k][j])
        /\ \A k, l \in 1..Len(pages) :
               k < l => \A x \in PageSet(k), y \in PageSet(l) :
                            y < x /\ CreatedAt(y) <= CreatedAt(x)
        /\ pager.done => UNION {PageSet(k) : k \in 1..Len(pages)} = History

\* C10 witness: a walk with limit 2 over a conversation of three messages,
\* in a store that also holds a message of another conversation,
\* has ended after a full page, a page of one and the empty page.
C10_Witness ==
    /\ pager.done /\ pager.limit = 2
    /\ Len(pager.pages) = 3
    /\ Len(pager.pages[1]) = 2 /\ Len(pager.pages[2]) = 1
    /\ pager.pages[3] = << >>
    /\ \E m \in msgs : m.conversation = OtherConv

\* A body that carries a file, or a text that is not empty after trimming
\* and has at most 4000 characters.
ValidBody(b) ==
    \/ b.file
    \/ b.str /\ Trim(b.text) # EmptyText /\ TextLen(Trim(b.text)) <= MaxTextLen

\* C11: sendMessage goes on to persist a message only for a body with a
\* file or with a text that is non-empty after trimming and at most 4000
\* characters long, and a request answered 400 has stored no message and
\* has left the conversation as it was.
C11_OnlyValidBodiesAccepted ==
    [][\A r \in Reqs :
          /\ (req'[r].op = "send" /\ req'[r].pc = "saveMsg" /\ req[r].pc # "saveMsg")
                => ValidBody(req'[r].body)
          /\ (req'[r] # req[r] /\ req'[r].op = "send" /\ req'[r].status = 400)
                => (msgs' = msgs /\ convs' = convs)]_vars

\* C12: the conversation save of a message that has an attachment and no
\* text leaves a lastMessagePreview that is not the empty string.
C12_AttachmentPreviewPlaceholder ==
    [][\A r \in Reqs :
          (SendSaves(r) /\ req[r].msg.att /\ req[r].msg.text = EmptyText)
              => convs'[req[r].conv].lastMessagePreview # EmptyText]_vars

\* The conversation rooms.
ConvRooms == {ToConvRoom(c) : c \in (DOMAIN convs) \cup {UnknownConv}}

\* The keys of a conversation's user and company.
ParticipantKeys(doc) == {keyForActor("user", doc.user), keyForActor("company", doc.company)}

C14_ExactlyOneRecipient ==
    \A n \in notifs : (n.userId # 0) # (n.companyId # 0)

\* The principal a notification is addressed to, as createNotification and
\* createJob emit it: the user when userId is set, the company otherwise.
Recipient(n) ==
    IF n.userId # 0 THEN [type |-> "user", id |-> n.userId]
                    ELSE [type |-> "company", id |-> n.companyId]

\* C15: the list and the unread count of a caller contain only notifications
\* addressed to the caller, and a step of mark-one-read, mark-all-read,
\* delete-one or delete-all leaves every notification addressed to another
\* principal in the store as it is.
C15_ScopedToCaller ==
    /\ [](\A r \in Reqs : req[r].op \in {"nlist", "ncount"} =>
              \A n \in req[r].seen : Recipient(n) = req[r].actor)
    /\ [][\A r \in Reqs :
             (req'[r] # req[r] /\ req'[r].op \in {"nread", "nreadall", "nclear"}) =>
                 \A n \in notifs : Recipient(n) # req'[r].actor => n \in notifs']_vars

\* C16: when an account deletion has completed, no conversation references
\* the deleted principal and every message belongs to a conversation that
\* exists; and a step that removes a conversation is a step of the cascade.
C16_CascadeLeavesNoOrphans ==
    /\ [](\A r \in Reqs : (req[r].op = "delete" /\ req[r].pc = "done") =>
              /\ ConvsOf(req[r].actor) = {}
              /\ \A m \in msgs : m.conversation \in DOMAIN convs)
    /\ [][(DOMAIN convs) \ (DOMAIN convs') # {} =>
              \E r \in Reqs : req[r].op = "delete" /\ req[r].pc = "convs"]_vars

\* C17: in the step in which sendMessage answers 500, the message of the
\* request is not in the store and the conversation is as the request
\* loaded it.
C17_FailedSendLeavesNothing ==
    [][\A r \in Reqs :
          (req'[r].op = "send" /\ req'[r].status = 500 /\ req[r].pc # "done") =>
              /\ req[r].msg \notin msgs'
              /\ FindConv(req[r].conv)' = req[r].doc]_vars

\* C18: a step leaves every message that has a readAt exactly as it is, and
\* a message gets a readAt only in the updateMany step of a markRead on its
\* conversation by the participant of the side that did not write it.
C18_ReadAtSetOnceByOtherSide ==
    [][/\ \A m \in msgs : m.readAt # 0 => m \in msgs'
       /\ \A n \in msgs' : (n.readAt # 0 /\ n \notin msgs) =>
             /\ [n EXCEPT !.readAt = 0] \in msgs
             /\ \E r \in Reqs :
                   /\ req[r].op = "read" /\ req[r].pc = "updateMany"
                   /\ req'[r].pc = "saveConvo"
                   /\ req[r].conv = n.conversation
                   /\ req[r].actor.type # n.senderType
                   /\ req[r].actor \in
                         {[type |-> "user", id |-> FindConv(n.conversation).user],
                          [type |-> "company", id |-> FindConv(n.conversation).company]}]_vars

\* C18 witness: two messages of one side were read by two markRead calls at
\* different times: the first keeps its earlier readAt after the second
\* markRead and after a later startConversation.
C18_Witness ==
    /\ \E m, n \in msgs : /\ m.senderType = n.senderType
                          /\ m.readAt = 1 /\ n.readAt = 2
    /\ \E r \in Reqs : req[r].op = "start" /\ req[r].status = 201

\* The handles registered for the two participants of a conversation.
HandlesOf(doc) ==
    Get(connectedUsers, keyForActor("user", doc.user))
        \cup Get(connectedUsers, keyForActor("company", doc.company))

\* The handles a bag of events was pushed to directly.
PushedTo(bag, event) == {s \in Sockets : \E e \in BagToSet(bag) : e.ev = event /\ e.to = ToSid(s)}

DirectPushes(bag) == {e \in BagToSet(bag) : e.to[1] = "sid"}

\* C20: the step of sendMessage or markRead that calls emitChatEvent puts
\* into the emitted events, for each of the two participants' keys and for
\* every handle in that key's set at that moment, one copy of the event
\* addressed to that handle; it addresses no handle outside those sets, so a
\* participant without a handle gets no direct push; and the request is not
\* answered 500.
C20_EveryHandleOfBothSides ==
    [][\A r \in Reqs :
          (/\ req[r].op \in {"send", "read"} /\ req[r].pc = "saveConvo"
           /\ req'[r].pc # "saveConvo"
           /\ req[r].conv \in DOMAIN convs) =>
              LET q == req[r]
                  event == IF q.op = "send" THEN "message:new" ELSE "message:read"
                  keys == {keyForActor("user", q.doc.user),
                           keyForActor("company", q.doc.company)}
              IN  /\ \A key \in keys : \A sid \in Get(connectedUsers, key) :
                        \E e \in DirectPushes(emitted') :
                            /\ e.ev = event /\ e.to = ToSid(sid)
                            /\ e.type = key[1] /\ e.id = key[2]
                            /\ e.conv = q.conv
                            /\ CopiesIn(e, emitted') = 1
                  /\ \A e \in DirectPushes(emitted') :
                        /\ e.ev = event
                        /\ \E key \in keys : /\ e.type = key[1] /\ e.id = key[2]
                                             /\ e.to[3] \in Get(connectedUsers, key)
                  /\ req'[r].status # 500]_vars

\* C20 witness: a markRead by the company has just been answered 200 while
\* the user has two handles registered and the company none: 'message:read'
\* went to both handles of the user and to no other handle.
C20_Witness ==
    /\ req[1].op = "read" /\ req[1].actor.type = "company" /\ req[1].status = 200
    /\ Get(connectedUsers, keyForActor("user", 1)) = {1, 2}
    /\ Get(connectedUsers, keyForActor("company", 2)) = {}
    /\ {e.to : e \in DirectPushes(emitted)} = {ToSid(1), ToSid(2)}
    /\ \A e \in DirectPushes(emitted) : e.ev = "message:read"

\* C21: a caller who is no participant of an existing conversation gets, for
\* listMessages, sendMessage and markRead, the same status and the same body
\* as the same caller gets for the same operation on an id that names no
\* conversation.
C21_RefusalHidesExistence ==
    \A r1, r2 \in Reqs :
        (/\ req[r1].pc = "done" /\ req[r2].pc = "done"
         /\ Outsider(req[r1])
         /\ req[r2].op = req[r1].op /\ req[r2].actor = req[r1].actor
         /\ req[r2].conv \notin DOMAIN convs) =>
            /\ req[r1].status = req[r2].status
            /\ req[r1].out = req[r2].out

\* A principal reference as the register event expects it: an id string, or
\* an object with an id and the type user or company.
WellFormed(p) ==
    \/ p.kind = "string"
    \/ p.kind = "object" /\ p.id # 0 /\ p.type \in {"user", "company"}

\* C22: a register event with a payload that is no well-formed principal
\* reference changes no registry entry, no room membership and no
\* connection, and emits nothing.
C22_MalformedRegisterIsNoOp ==
    [][\A s \in Sockets, p \in RegisterPayloads :
          (~WellFormed(p) /\ Register(s, p)) =>
              /\ UNCHANGED <<connectedUsers, rooms, sockets, actor>>
              /\ emitted' = EmptyBag]_vars

\* The keys whose handle set holds socket s.
SetsHolding(s) == {k \in DOMAIN connectedUsers : s \in connectedUsers[k]}

\* C23: every connection handle is in the handle set of at most one
\* principal, and the handle of a connection that has disconnected is in
\* none.
C23_HandleOwnedByOnePrincipal ==
    \A s \in Sockets :
        /\ Cardinality(SetsHolding(s)) <= 1
        /\ sockets[s] = "closed" => SetsHolding(s) = {}

\* C27: connectedUsers holds no empty set: a key is present exactly when its
\* set has a handle, and exactly when isActorOnline reports the principal
\* online.
C27_NoEmptyHandleSet ==
    /\ \A k \in DOMAIN connectedUsers : connectedUsers[k] # {}
    /\ \A p \in Principals :
          Has(connectedUsers, keyForActor(p.type, p.id)) <=> isActorOnline(p.type, p.id)

\* C27 witness: a disconnect has just emptied the set of one principal (its
\* offline event is out and its key is gone) while another principal keeps
\* a handle.
C27_Witness ==
    /\ \E e \in BagToSet(emitted) :
          e.ev = "user:offline" /\ ~Has(connectedUsers, keyForActor(e.type, e.id))
    /\ DOMAIN connectedUsers # {}

\* C28: for every principal key, the handles in its registry set are exactly
\* the connected sockets that are members of the room named by the key.
C28_RegistryMatchesRooms ==
    \A k \in Keys : Get(connectedUsers, k) = InRoom(ToActorRoom(k))

\* C28 witness: one principal has two handles, both in its room, while
\* another principal has no handle and no socket in its room.
C28_Witness ==
    /\ \E k \in Keys : /\ Cardinality(Get(connectedUsers, k)) = 2
                       /\ Cardinality(InRoom(ToActorRoom(k))) = 2
    /\ \E k \in Keys : ~Has(connectedUsers, k) /\ InRoom(ToActorRoom(k)) = {}

\* The connections registered under a key that connection s registered under.
OwnConnections(s) == {t \in Sockets : regs[t] \cap regs[s] # {}}

\* C29: a typing event sent by a connection that is not registered as a
\* participant of the conversation it names reaches no connection of
\* another principal (none at all when the sender never registered), and
\* handling a typing event of any connection changes no registry entry, no
\* room and nothing stored.
C29_TypingOnlyFromParticipants ==
    [][\A s \in Sockets, c \in {NoJoin, ChatConv, UnknownConv}, to \in TypingTargets :
          Typing(s, c, to) =>
              /\ UNCHANGED <<connectedUsers, rooms, regs, storeVars>>
              /\ regs[s] \cap ParticipantKeys(FindConv(c)) = {} =>
                    \A e \in BagToSet(emitted') : e.rcv \subseteq OwnConnections(s)]_vars

\* The stored message a notification was created for.
MessageOf(n) == CHOOSE m \in msgs : m.id = n.forMsg

\* C24: the message of a message_received notification is the first 100
\* characters of the message's text and nothing else, which is the whole
\* text when that has at most 100 characters, or the placeholder when the
\* message has no text.
C24_PreviewIsFirstHundred ==
    \A n \in notifs :
        LET m == MessageOf(n)
        IN  /\ n.message.placeholder <=> m.text = EmptyText
            /\ n.message.text = Slice(m.text, NotifPreviewLen)
            /\ TextLen(m.text) <= NotifPreviewLen => n.message.text = m.text
            /\ ~n.message.dots

\* The principal an accepted message is for.
RecipientOfMessage(id) ==
    LET m == CHOOSE x \in msgs : x.id = id
    IN  RecipientOf(convs[m.conversation], m.senderType)

\* C25: the step of sendMessage that pushes 'message:new' finds the
\* recipient online exactly when the recipient's registry set holds a handle
\* in that same state, and then every handle of the set is pushed to; and
\* every accepted message whose recipient was found offline has a
\* message_received notification addressed to the recipient.
C25_PushedOrNotified ==
    /\ [](\A r \in Accepted :
              \/ req[r].online
              \/ \E n \in NotifsFor(req[r].out[1]) :
                    /\ n.type = "message_received"
                    /\ Recipient(n) = RecipientOfMessage(req[r].out[1]))
    /\ [][\A r \in Reqs : SendSaves(r) =>
             LET to == RecipientOf(req[r].doc, req[r].actor.type)
                 handles == Get(connectedUsers, keyForActor(to.type, to.id))
             IN  /\ req'[r].online <=> handles # {}
                 /\ handles \subseteq PushedTo(emitted', "message:new")
                 /\ handles = {} => req'[r].pc = "notify"]_vars

\* C25 witness: the recipient registered after the push of an accepted
\* message had found no handle: the message has its notification and the
\* recipient is online by now.
C25_Witness ==
    /\ 1 \in Accepted
    /\ ~req[1].online
    /\ LET to == RecipientOfMessage(req[1].out[1])
       IN  /\ isActorOnline(to.type, to.id)
           /\ \E n \in NotifsFor(req[1].out[1]) : Recipient(n) = to

\* The createdAt of the newest message of conversation c (0 when it has none).
NewestAt(c) ==
    LET at == {m.createdAt : m \in {x \in msgs : x.conversation = c}}
    IN  IF at = {} THEN 0 ELSE CHOOSE t \in at : \A u \in at : u <= t

\* C26: whenever a conversation has a message and no sendMessage is between
\* its two saves, lastMessageAt is the createdAt of the newest message; and
\* a startConversation that finds the pair's conversation leaves every
\* stored field of it as it was.
C26_LastMessageAtFollowsMessages ==
    /\ [](\A c \in DOMAIN convs :
              (/\ NewestAt(c) # 0
               /\ \A r \in Reqs : ~(req[r].op = "send" /\ req[r].pc = "saveConvo"
                                      /\ req[r].conv = c))
                  => convs[c].lastMessageAt = NewestAt(c))
    /\ [][\A r \in Reqs :
             (/\ req'[r].op = "start" /\ req'[r].pc = "respond" /\ req[r].pc # "respond"
              /\ req'[r].conv \in DOMAIN convs)
                 => convs'[req'[r].conv] = convs[req'[r].conv]]_vars

\* The number of direct copies a bag of events holds for handle s.
DirectCopies(bag, s) ==
    LET S == {e \in BagToSet(bag) : e.to = ToSid(s)}
    IN  BagCardinality([e \in S |-> bag[e]])

\* C30: one call of emitChatEvent hands each handle registered for a
\* participant exactly one direct copy of the event, and a handle that is
\* registered for neither participant none.
C30_OneDirectCopyPerHandle ==
    [][\A r \in Reqs :
          (/\ req[r].op \in {"send", "read"} /\ req[r].pc = "saveConvo"
           /\ req'[r].pc # "saveConvo"
           /\ req[r].conv \in DOMAIN convs) =>
              \A s \in Sockets :
                  DirectCopies(emitted', s) = IF s \in HandlesOf(req[r].doc) THEN 1 ELSE 0]_vars

====
